---- MODULE Spec2Model ----
(***************************************************************************)
(* Memory game of assets/js/memory-game.js as a state machine.             *)
(*                                                                         *)
(* The state is the `state` object of the script, the class lists of the   *)
(* rendered cards and of the board, the disabled flags of the buttons,     *)
(* localStorage, and the queue of pending setTimeout callbacks.  Cards are *)
(* the positions 1..Len(deck) of the rendered board (data-index + 1); 0    *)
(* stands for a null card reference.                                       *)
(*                                                                         *)
(* The pair counts of the two difficulties (6 and 12 in the script) and    *)
(* the size of the symbol pool (12) are scaled down by the same factor, so *)
(* that every deck the shuffle can produce is explored: "hard" still uses  *)
(* the whole pool and twice the pairs of "easy".                           *)
(***************************************************************************)
EXTENDS Integers, Sequences, FiniteSets, TLC

\* ---------------------------------------------------------------- bounds
EasyPairs == 1
HardPairs == 2
PoolSize == 2
MaxMoves == 3
MaxTimeouts == 2
MaxClock == 3
MaxShuffleLen == 3

\* ---------------------------------------------------------------- values
\* JavaScript null and NaN as held in state.bestScores (numbers are >= 0).
NULL == 0 - 1
NaN == 0 - 2

NoCard == 0

Difficulties == {"easy", "hard"}

VARIABLES
    difficulty,         \* state.difficulty
    deck,               \* state.deck: sequence of symbol names
    flipped,            \* cards whose classList has "is-flipped"
    matched,            \* cards whose classList has "is-matched"
    moves,              \* state.moves
    matches,            \* state.matches
    firstCard,          \* state.firstCard (NoCard = null)
    secondCard,         \* state.secondCard (NoCard = null)
    lockBoard,          \* state.lockBoard
    gameStarted,        \* state.gameStarted
    paused,             \* state.paused
    timerInterval,      \* state.timerInterval # null
    intervals,          \* number of setInterval tickers not yet cleared
    startTime,          \* state.startTime
    elapsedMs,          \* state.elapsedMs
    bestScores,         \* state.bestScores
    localStorage,       \* the two mgBestMoves_* items (absent key = no item)
    boardDisabled,      \* board has class "is-disabled"
    startBtnDisabled,   \* startBtn.disabled
    restartBtnDisabled, \* restartBtn.disabled
    pauseBtnDisabled,   \* pauseBtn.disabled
    winShown,           \* winMessage has class "is-show"
    timeouts,           \* pending mismatch callbacks, oldest first; each is
                        \* tagged "current" or "superseded" (history only:
                        \* the callback itself captures nothing but `state`)
    endGameCalls,       \* history: calls of endGame since the last
                        \* startGame/prepareGame
    lastOp,             \* history: the operation of the last step, the card
                        \* it was given and the tag of the callback it ran
    now,                \* Date.now()
    unpausedMs,         \* history: time passed while the game was started
                        \* and not paused, since the last startGame/prepareGame
    shuffleIn,          \* an array handed to shuffle
    shuffleOut          \* the array as shuffle leaves it

gameVars == <<difficulty, deck, flipped, matched, moves, matches, firstCard,
              secondCard, lockBoard, gameStarted, paused, timerInterval,
              intervals, startTime, elapsedMs, bestScores, localStorage,
              boardDisabled, startBtnDisabled, restartBtnDisabled,
              pauseBtnDisabled, winShown>>

vars == <<difficulty, deck, flipped, matched, moves, matches, firstCard,
          secondCard, lockBoard, gameStarted, paused, timerInterval,
          intervals, startTime, elapsedMs, bestScores, localStorage,
          boardDisabled, startBtnDisabled, restartBtnDisabled,
          pauseBtnDisabled, winShown, timeouts, endGameCalls, lastOp, now,
          unpausedMs, shuffleIn, shuffleOut>>

\* ------------------------------------------------------------ game data
GAME_DATA_NAMES == <<"Python", "SQL", "ML", "Tableau", "Docker", "Git",
                     "Cloud", "Excel", "Code", "Terminal", "CPU", "Diagram">>

GAME_DATA == SubSeq(GAME_DATA_NAMES, 1, PoolSize)

DIFFICULTIES == [easy |-> [pairs |-> EasyPairs], hard |-> [pairs |-> HardPairs]]

Pairs(d) == DIFFICULTIES[d].pairs

\* ------------------------------------------------------------- shuffle
\* A swap that loses arr[i]
SwapOverwrites(arr, i, j) == [arr EXCEPT ![i] = arr[j]]

\* [arr[i], arr[j]] = [arr[j], arr[i]]
Swap(arr, i, j) == [arr EXCEPT ![i] = arr[j], ![j] = arr[i]]

\* Fisher-Yates from index i down: every outcome of the random j in 1..i.
RECURSIVE ShuffleFrom(_, _)
ShuffleFrom(arr, i) ==
    IF i < 2 THEN {arr}
    ELSE UNION {ShuffleFrom(Swap(arr, i, j), i - 1) : j \in 1..i}

shuffle(arr) == ShuffleFrom(arr, Len(arr))

Min(a, b) == IF a < b THEN a ELSE b

\* pool.slice(0, pairs)
Slice(arr, n) == SubSeq(arr, 1, Min(n, Len(arr)))

generateDeck(d) ==
    UNION {shuffle(Slice(pool, Pairs(d)) \o Slice(pool, Pairs(d))) :
              pool \in shuffle(GAME_DATA)}

Decks == [d \in Difficulties |-> generateDeck(d)]

\* ------------------------------------------------- strings and numbers
\* A string is a sequence of one-character strings.
Digits == <<"0", "1", "2", "3", "4", "5", "6", "7", "8", "9">>

IsDigit(ch) == \E i \in 1..10 : Digits[i] = ch

DigitVal(ch) == (CHOOSE i \in 1..10 : Digits[i] = ch) - 1

RECURSIVE TrimStart(_)
TrimStart(s) ==
    IF s # <<>> /\ Head(s) = " " THEN TrimStart(Tail(s)) ELSE s

RECURSIVE TrimEnd(_)
TrimEnd(s) ==
    IF s # <<>> /\ s[Len(s)] = " " THEN TrimEnd(SubSeq(s, 1, Len(s) - 1)) ELSE s

RECURSIVE DecimalValue(_)
DecimalValue(s) ==
    IF s = <<>> THEN 0
    ELSE DecimalValue(SubSeq(s, 1, Len(s) - 1)) * 10 + DigitVal(s[Len(s)])

\* Number(string) of JavaScript on strings over digits, blanks and letters:
\* blank strings convert to 0, digit strings to their value, the rest to NaN.
Number(s) ==
    LET t == TrimEnd(TrimStart(s))
    IN  IF t = <<>> THEN 0
        ELSE IF \A i \in 1..Len(t) : IsDigit(t[i]) THEN DecimalValue(t)
        ELSE NaN

\* String(number) for a number >= 0.
RECURSIVE String(_)
String(n) ==
    IF n < 10 THEN <<Digits[n + 1]>>
    ELSE String(n \div 10) \o <<Digits[(n % 10) + 1]>>

\* a < b of JavaScript on numbers and NaN.
JsLess(a, b) == a # NaN /\ b # NaN /\ a < b

\* The values a mgBestMoves_* item may hold when the page loads.
StoredItems == {<<>>, <<"3">>, <<"x">>}

\* localStorage.getItem(key) is null (no item) or the empty string.
Falsy(store, d) == d \notin DOMAIN store \/ store[d] = <<>>

\* One line of loadBestScores: item ? Number(item) : null
LoadedBest(store, d) == IF Falsy(store, d) THEN NULL ELSE Number(store[d])

loadBestScores(store) == [d \in Difficulties |-> LoadedBest(store, d)]

\* The test of maybeUpdateBestScore with the comparison turned round
IsNewBestReversed(best, m) == best = NULL \/ JsLess(best, m)

\* The test of maybeUpdateBestScore
IsNewBest(best, m) == best = NULL \/ JsLess(m, best)

\* ------------------------------------------------------------- timer
\* stopTimer that forgets clearInterval
IntervalsAfterStopLeaks == intervals

\* stopTimer: clears the ticker state.timerInterval refers to, if any.
IntervalsAfterStop == IF timerInterval THEN intervals - 1 ELSE intervals

\* stopTimer that forgets to fold the running segment
ElapsedAfterStopNoFold == elapsedMs

\* stopTimer: folds the running segment into state.elapsedMs.
ElapsedAfterStop ==
    IF timerInterval THEN elapsedMs + (now - startTime) ELSE elapsedMs

\* tickTimer: the total the ticker displays.
totalMs == elapsedMs + (now - startTime)

\* ---------------------------------------------------------- operations
Cards == 1..Len(deck)

Loaded == [op |-> "load", card |-> NoCard, tag |-> ""]

Op(name) == [op |-> name, card |-> NoCard, tag |-> ""]

Supersede(q) == [i \in 1..Len(q) |-> "superseded"]

TypeOK ==
    /\ difficulty \in Difficulties
    /\ deck \in Decks[difficulty]
    /\ flipped \subseteq Cards
    /\ matched \subseteq Cards
    /\ moves \in 0..MaxMoves
    /\ matches \in 0..Pairs(difficulty)
    /\ firstCard \in {NoCard} \cup Cards
    /\ secondCard \in {NoCard} \cup Cards
    /\ lockBoard \in BOOLEAN
    /\ gameStarted \in BOOLEAN
    /\ paused \in BOOLEAN
    /\ timerInterval \in BOOLEAN
    /\ intervals \in Nat
    /\ startTime \in 0..MaxClock
    /\ elapsedMs \in 0..MaxClock
    /\ now \in 0..MaxClock
    /\ unpausedMs \in 0..MaxClock
    /\ DOMAIN bestScores = Difficulties
    /\ DOMAIN localStorage \subseteq Difficulties
    /\ boardDisabled \in BOOLEAN
    /\ startBtnDisabled \in BOOLEAN
    /\ restartBtnDisabled \in BOOLEAN
    /\ pauseBtnDisabled \in BOOLEAN
    /\ winShown \in BOOLEAN
    /\ Len(timeouts) <= MaxTimeouts
    /\ endGameCalls \in Nat

\* State once the DOMContentLoaded handler has run: loadBestScores() and
\* prepareGame() on the initial `state` object.
GameInit ==
    /\ difficulty \in Difficulties
    /\ deck \in Decks[difficulty]
    /\ flipped = {}
    /\ matched = {}
    /\ moves = 0
    /\ matches = 0
    /\ firstCard = NoCard
    /\ secondCard = NoCard
    /\ lockBoard = FALSE
    /\ gameStarted = FALSE
    /\ paused = FALSE
    /\ timerInterval = FALSE
    /\ intervals = 0
    /\ startTime = 0
    /\ elapsedMs = 0
    /\ \E keys \in SUBSET Difficulties : localStorage \in [keys -> StoredItems]
    /\ bestScores = loadBestScores(localStorage)
    /\ boardDisabled = TRUE
    /\ startBtnDisabled = FALSE
    /\ restartBtnDisabled = TRUE
    /\ pauseBtnDisabled = TRUE
    /\ winShown = FALSE
    /\ timeouts = <<>>
    /\ endGameCalls = 0
    /\ lastOp = Loaded
    /\ now = 0
    /\ unpausedMs = 0

Init ==
    /\ GameInit
    /\ shuffleIn = <<>>
    /\ shuffleOut = <<>>

\* prepareGame that forgets resetFlipState()
prepareGameKeepsFlipState(d) ==
    /\ difficulty' = d
    /\ winShown' = FALSE
    /\ timerInterval' = FALSE
    /\ intervals' = IntervalsAfterStop
    /\ elapsedMs' = 0
    /\ startTime' = startTime
    /\ moves' = 0
    /\ matches' = 0
    /\ gameStarted' = FALSE
    /\ paused' = FALSE
    /\ deck' \in Decks[d]
    /\ flipped' = {}
    /\ matched' = {}
    /\ boardDisabled' = TRUE
    /\ startBtnDisabled' = FALSE
    /\ restartBtnDisabled' = TRUE
    /\ pauseBtnDisabled' = TRUE
    /\ UNCHANGED <<bestScores, localStorage, firstCard, secondCard, lockBoard>>

\* prepareGame() for difficulty d (the change listener sets d first).
prepareGame(d) ==
    /\ difficulty' = d
    /\ winShown' = FALSE
    /\ timerInterval' = FALSE
    /\ intervals' = IntervalsAfterStop
    /\ elapsedMs' = 0
    /\ startTime' = startTime
    /\ moves' = 0
    /\ matches' = 0
    /\ gameStarted' = FALSE
    /\ paused' = FALSE
    /\ firstCard' = NoCard
    /\ secondCard' = NoCard
    /\ lockBoard' = FALSE
    /\ deck' \in Decks[d]
    /\ flipped' = {}
    /\ matched' = {}
    /\ boardDisabled' = TRUE
    /\ startBtnDisabled' = FALSE
    /\ restartBtnDisabled' = TRUE
    /\ pauseBtnDisabled' = TRUE
    /\ UNCHANGED <<bestScores, localStorage>>

\* startGame that stops the timer without resetting it
startGameKeepsElapsed ==
    /\ winShown' = FALSE
    /\ moves' = 0
    /\ matches' = 0
    /\ gameStarted' = TRUE
    /\ paused' = FALSE
    /\ firstCard' = NoCard
    /\ secondCard' = NoCard
    /\ lockBoard' = FALSE
    /\ deck' \in Decks[difficulty]
    /\ flipped' = {}
    /\ matched' = {}
    /\ boardDisabled' = FALSE
    /\ startBtnDisabled' = TRUE
    /\ restartBtnDisabled' = FALSE
    /\ pauseBtnDisabled' = FALSE
    /\ timerInterval' = TRUE
    /\ intervals' = IntervalsAfterStop + 1
    /\ elapsedMs' = ElapsedAfterStop
    /\ startTime' = now
    /\ UNCHANGED <<difficulty, bestScores, localStorage>>

startGame ==
    /\ winShown' = FALSE
    /\ moves' = 0
    /\ matches' = 0
    /\ gameStarted' = TRUE
    /\ paused' = FALSE
    /\ firstCard' = NoCard
    /\ secondCard' = NoCard
    /\ lockBoard' = FALSE
    /\ deck' \in Decks[difficulty]
    /\ flipped' = {}
    /\ matched' = {}
    /\ boardDisabled' = FALSE
    /\ startBtnDisabled' = TRUE
    /\ restartBtnDisabled' = FALSE
    /\ pauseBtnDisabled' = FALSE
    /\ timerInterval' = TRUE
    /\ intervals' = IntervalsAfterStop + 1
    /\ elapsedMs' = 0
    /\ startTime' = now
    /\ UNCHANGED <<difficulty, bestScores, localStorage>>

\* maybeUpdateBestScore() with state.moves = m
maybeUpdateBestScore(m) ==
    IF IsNewBest(bestScores[difficulty], m)
    THEN /\ bestScores' = [bestScores EXCEPT ![difficulty] = m]
         /\ localStorage' =
                [d \in DOMAIN localStorage \cup {difficulty} |->
                    IF d = difficulty THEN String(m) ELSE localStorage[d]]
    ELSE UNCHANGED <<bestScores, localStorage>>

\* endGame() with state.moves = m
endGame(m) ==
    /\ timerInterval' = FALSE
    /\ intervals' = IntervalsAfterStop
    /\ elapsedMs' = ElapsedAfterStop
    /\ startTime' = startTime
    /\ gameStarted' = FALSE
    /\ paused' = FALSE
    /\ boardDisabled' = TRUE
    /\ pauseBtnDisabled' = TRUE
    /\ startBtnDisabled' = FALSE
    /\ winShown' = TRUE
    /\ maybeUpdateBestScore(m)
    /\ endGameCalls' = endGameCalls + 1

\* state.deck[i1].name === state.deck[i2].name
SameName(i1, i2) == deck[i1] = deck[i2]

\* The end test against the number of cards instead of pairs
AllMatchedCountsCards(n) == n = 2 * Pairs(difficulty)

\* The test that ends the game after a match
AllMatched(n) == n = Pairs(difficulty)

\* state.moves++ of flipCard, and a slip that counts the move twice
MovesDoubled(m) == m + 2

MovesIncremented(m) == m + 1

\* checkMatch that locks the board without handing a callback to setTimeout
checkMatchNoTimeout(card, m) ==
    IF SameName(firstCard, card)
    THEN /\ matches' = matches + 1
         /\ matched' = matched \cup {firstCard, card}
         /\ firstCard' = NoCard
         /\ secondCard' = NoCard
         /\ lockBoard' = FALSE
         /\ timeouts' = timeouts
         /\ IF AllMatched(matches + 1)
            THEN endGame(m)
            ELSE UNCHANGED <<timerInterval, intervals,
                             startTime, elapsedMs, gameStarted, paused,
                             boardDisabled, pauseBtnDisabled, startBtnDisabled,
                             winShown, bestScores, localStorage, endGameCalls>>
    ELSE /\ lockBoard' = TRUE
         /\ secondCard' = card
         /\ timeouts' = timeouts
         /\ UNCHANGED <<matches, matched, firstCard, timerInterval, intervals,
                        startTime, elapsedMs,
                        gameStarted, paused, boardDisabled, pauseBtnDisabled,
                        startBtnDisabled, winShown, bestScores, localStorage,
                        endGameCalls>>

\* checkMatch() with state.secondCard = card and state.moves = m
checkMatch(card, m) ==
    IF SameName(firstCard, card)
    THEN /\ matches' = matches + 1
         /\ matched' = matched \cup {firstCard, card}
         /\ firstCard' = NoCard
         /\ secondCard' = NoCard
         /\ lockBoard' = FALSE
         /\ timeouts' = timeouts
         /\ IF AllMatched(matches + 1)
            THEN endGame(m)
            ELSE UNCHANGED <<timerInterval, intervals,
                             startTime, elapsedMs, gameStarted, paused,
                             boardDisabled, pauseBtnDisabled, startBtnDisabled,
                             winShown, bestScores, localStorage, endGameCalls>>
    ELSE /\ lockBoard' = TRUE
         /\ secondCard' = card
         /\ timeouts' = Append(timeouts, "current")
         /\ UNCHANGED <<matches, matched, firstCard, timerInterval, intervals,
                        startTime, elapsedMs,
                        gameStarted, paused, boardDisabled, pauseBtnDisabled,
                        startBtnDisabled, winShown, bestScores, localStorage,
                        endGameCalls>>

\* flipCard that forgets the lockBoard test
flipCardReturnsNoLock(card) ==
    \/ ~gameStarted
    \/ paused
    \/ card \in matched
    \/ card \in flipped

\* The early returns of flipCard(card)
flipCardReturns(card) ==
    \/ ~gameStarted
    \/ paused
    \/ lockBoard
    \/ card \in matched
    \/ card \in flipped

flipCard(card) ==
    IF flipCardReturns(card)
    THEN UNCHANGED <<gameVars, timeouts, endGameCalls>>
    ELSE /\ flipped' = flipped \cup {card}
         /\ UNCHANGED <<difficulty, deck, restartBtnDisabled>>
         /\ IF firstCard = NoCard
            THEN /\ firstCard' = card
                 /\ UNCHANGED <<matched, moves, matches, secondCard, lockBoard,
                                gameStarted, paused, timerInterval, intervals,
                                startTime, elapsedMs,
                                bestScores, localStorage, boardDisabled,
                                startBtnDisabled, pauseBtnDisabled, winShown,
                                timeouts, endGameCalls>>
            ELSE /\ moves' = MovesIncremented(moves)
                 /\ checkMatch(card, MovesIncremented(moves))

\* A callback that gives up while the game is paused
mismatchCallbackSkipsPaused ==
    IF paused \/ firstCard = NoCard
    THEN UNCHANGED gameVars
    ELSE IF secondCard = NoCard
    THEN /\ flipped' = flipped \ {firstCard}
         /\ UNCHANGED <<difficulty, deck, matched, moves, matches, firstCard,
                        secondCard, lockBoard, gameStarted, paused,
                        timerInterval, intervals,
                        startTime, elapsedMs, bestScores, localStorage,
                        boardDisabled, startBtnDisabled, restartBtnDisabled,
                        pauseBtnDisabled, winShown>>
    ELSE /\ flipped' = flipped \ {firstCard, secondCard}
         /\ firstCard' = NoCard
         /\ secondCard' = NoCard
         /\ lockBoard' = FALSE
         /\ UNCHANGED <<difficulty, deck, matched, moves, matches,
                        gameStarted, paused, timerInterval, intervals,
                        startTime, elapsedMs,
                        bestScores, localStorage, boardDisabled,
                        startBtnDisabled, restartBtnDisabled,
                        pauseBtnDisabled, winShown>>

\* The callback checkMatch hands to setTimeout.  It reads state.firstCard and
\* state.secondCard when it runs; a null one raises a TypeError that ends it.
mismatchCallback ==
    IF firstCard = NoCard
    THEN UNCHANGED gameVars
    ELSE IF secondCard = NoCard
    THEN /\ flipped' = flipped \ {firstCard}
         /\ UNCHANGED <<difficulty, deck, matched, moves, matches, firstCard,
                        secondCard, lockBoard, gameStarted, paused,
                        timerInterval, intervals,
                        startTime, elapsedMs, bestScores, localStorage,
                        boardDisabled, startBtnDisabled, restartBtnDisabled,
                        pauseBtnDisabled, winShown>>
    ELSE /\ flipped' = flipped \ {firstCard, secondCard}
         /\ firstCard' = NoCard
         /\ secondCard' = NoCard
         /\ lockBoard' = FALSE
         /\ UNCHANGED <<difficulty, deck, matched, moves, matches,
                        gameStarted, paused, timerInterval, intervals,
                        startTime, elapsedMs,
                        bestScores, localStorage, boardDisabled,
                        startBtnDisabled, restartBtnDisabled,
                        pauseBtnDisabled, winShown>>

\* pauseGame that forgets the gameStarted test
pauseGameReturnsNoStarted == paused

\* The early return of pauseGame()
pauseGameReturns == ~gameStarted \/ paused

pauseGame ==
    IF pauseGameReturns
    THEN UNCHANGED gameVars
    ELSE /\ paused' = TRUE
         /\ timerInterval' = FALSE
         /\ intervals' = IntervalsAfterStop
         /\ elapsedMs' = ElapsedAfterStop
         /\ startTime' = startTime
         /\ boardDisabled' = TRUE
         /\ UNCHANGED <<difficulty, deck, flipped, matched, moves, matches,
                        firstCard, secondCard, lockBoard, gameStarted,
                        bestScores, localStorage, startBtnDisabled,
                        restartBtnDisabled, pauseBtnDisabled, winShown>>

\* resumeGame that forgets the paused test
resumeGameReturnsNoPaused == ~gameStarted

\* The early return of resumeGame()
resumeGameReturns == ~gameStarted \/ ~paused

resumeGame ==
    IF resumeGameReturns
    THEN UNCHANGED gameVars
    ELSE /\ paused' = FALSE
         /\ boardDisabled' = FALSE
         /\ timerInterval' = TRUE
         /\ intervals' = intervals + 1
         /\ startTime' = now
         /\ elapsedMs' = elapsedMs
         /\ UNCHANGED <<difficulty, deck, flipped, matched, moves, matches,
                        firstCard, secondCard, lockBoard, gameStarted,
                        bestScores, localStorage, startBtnDisabled,
                        restartBtnDisabled, pauseBtnDisabled, winShown>>

\* ------------------------------------------------------------- actions
\* The counters the program leaves unbounded stay within the bounds.
WithinBounds(card) ==
    IF flipCardReturns(card) \/ firstCard = NoCard THEN TRUE
    ELSE /\ moves < MaxMoves
         /\ IF SameName(firstCard, card) THEN TRUE
            ELSE Len(timeouts) < MaxTimeouts

\* flipCard(card) on any card of the board
FlipCard(card) ==
    /\ WithinBounds(card)
    /\ flipCard(card)
    /\ lastOp' = [op |-> "flipCard", card |-> card, tag |-> ""]
    /\ UNCHANGED <<now, unpausedMs, shuffleIn, shuffleOut>>

\* Click listener of the board
BoardClick(card) ==
    /\ ~boardDisabled
    /\ FlipCard(card)

\* Click listeners of startBtn and restartBtn
StartClick ==
    /\ ~startBtnDisabled \/ ~restartBtnDisabled
    /\ startGame
    /\ timeouts' = Supersede(timeouts)
    /\ endGameCalls' = 0
    /\ lastOp' = Op("startGame")
    /\ unpausedMs' = 0
    /\ UNCHANGED <<now, shuffleIn, shuffleOut>>

\* Change listener of the difficulty selector
DifficultyChange(d) ==
    /\ d # difficulty
    /\ prepareGame(d)
    /\ timeouts' = Supersede(timeouts)
    /\ endGameCalls' = 0
    /\ lastOp' = Op("prepareGame")
    /\ unpausedMs' = 0
    /\ UNCHANGED <<now, shuffleIn, shuffleOut>>

PauseGame ==
    /\ pauseGame
    /\ UNCHANGED <<timeouts, endGameCalls>>
    /\ lastOp' = Op("pauseGame")
    /\ UNCHANGED <<now, unpausedMs, shuffleIn, shuffleOut>>

ResumeGame ==
    /\ resumeGame
    /\ UNCHANGED <<timeouts, endGameCalls>>
    /\ lastOp' = Op("resumeGame")
    /\ UNCHANGED <<now, unpausedMs, shuffleIn, shuffleOut>>

\* Click listener of pauseBtn
PauseClick ==
    /\ ~pauseBtnDisabled
    /\ IF paused THEN ResumeGame ELSE PauseGame

\* The oldest pending mismatch callback runs (equal delays run in order).
Timeout ==
    /\ timeouts # <<>>
    /\ mismatchCallback
    /\ timeouts' = Tail(timeouts)
    /\ UNCHANGED endGameCalls
    /\ lastOp' = [op |-> "timeout", card |-> NoCard, tag |-> Head(timeouts)]
    /\ UNCHANGED <<now, unpausedMs, shuffleIn, shuffleOut>>

Next ==
    \/ \E card \in Cards : FlipCard(card)
    \/ \E card \in Cards : BoardClick(card)
    \/ StartClick
    \/ \E d \in Difficulties : DifficultyChange(d)
    \/ PauseGame
    \/ ResumeGame
    \/ PauseClick
    \/ Timeout

Spec == Init /\ [][Next]_vars

\* The mismatch callback always runs in the end (setTimeout fires).  The
\* behaviours start from a profile without stored best scores.
LiveInit == Init /\ DOMAIN localStorage = {}

LiveSpec == LiveInit /\ [][Next]_vars /\ WF_vars(Timeout)

\* Time passes: Date.now() grows by one unit.
Advance ==
    /\ now < MaxClock
    /\ now' = now + 1
    /\ unpausedMs' =
          IF gameStarted /\ ~paused THEN unpausedMs + 1 ELSE unpausedMs
    /\ lastOp' = Op("advance")
    /\ UNCHANGED <<gameVars, timeouts, endGameCalls, shuffleIn, shuffleOut>>

\* The page as its listeners and callbacks drive it, and the clock.
ClockNext ==
    \/ \E card \in Cards : BoardClick(card)
    \/ StartClick
    \/ \E d \in Difficulties : DifficultyChange(d)
    \/ PauseClick
    \/ Timeout
    \/ Advance

\* The game with its clock, from a profile without stored best scores.
ClockSpec == LiveInit /\ [][ClockNext]_vars

\* The arrays of at most MaxShuffleLen symbols of the pool.
Arrays == UNION {[1..n -> {GAME_DATA[i] : i \in 1..Len(GAME_DATA)}] :
                    n \in 0..MaxShuffleLen}

\* shuffle(arr) on the array shuffleIn
ShuffleArray ==
    /\ shuffleOut' \in shuffle(shuffleIn)
    /\ lastOp' = Op("shuffle")
    /\ UNCHANGED <<gameVars, timeouts, endGameCalls, now, unpausedMs, shuffleIn>>

DeckInit ==
    /\ GameInit
    /\ DOMAIN localStorage = {}
    /\ shuffleIn \in Arrays
    /\ shuffleOut = shuffleIn

\* The operations that shuffle: shuffle itself, and generateDeck as
\* startGame and prepareGame call it.
DeckNext ==
    \/ ShuffleArray
    \/ StartClick
    \/ \E d \in Difficulties : DifficultyChange(d)

DeckSpec == DeckInit /\ [][DeckNext]_vars

\* ================================================================ claims

\* flipCard(card) would be accepted: none of its early returns applies.
Accepted(card) ==
    /\ gameStarted
    /\ ~paused
    /\ ~lockBoard
    /\ card \notin matched
    /\ card \notin flipped

\* C1: flipCard leaves the whole game state unchanged (and schedules no
\* callback) whenever the game is not started, or is paused, or lockBoard is
\* true, or the clicked card is already matched or already face-up.
FlipCardNoOpWhenBlocked ==
    [][(lastOp'.op = "flipCard" /\ ~Accepted(lastOp'.card))
          => UNCHANGED <<gameVars, timeouts>>]_vars

\* A card clicked on a locked board of a running game stayed face-down.
FlipCardBlockedReached ==
    /\ lastOp.op = "flipCard"
    /\ gameStarted
    /\ ~paused
    /\ lockBoard
    /\ lastOp.card \notin flipped \cup matched

\* C2: a mismatch callback scheduled in a game that startGame or prepareGame
\* has since superseded changes nothing of the new game when it runs: no
\* card face, neither selection slot, not lockBoard.
SupersededCallbackHarmless ==
    [][(lastOp'.op = "timeout" /\ lastOp'.tag = "superseded")
          => UNCHANGED <<flipped, matched, firstCard, secondCard, lockBoard>>]_vars

\* C3: an accepted second selection with the name of the first increments
\* matches by exactly 1, marks both cards matched, leaves both face-up,
\* clears both selection slots and leaves lockBoard false.
MatchResolution ==
    [][(/\ lastOp'.op = "flipCard"
        /\ Accepted(lastOp'.card)
        /\ firstCard # NoCard
        /\ deck[firstCard] = deck[lastOp'.card])
          => /\ matches' = matches + 1
             /\ {firstCard, lastOp'.card} \subseteq matched'
             /\ {firstCard, lastOp'.card} \subseteq flipped'
             /\ firstCard' = NoCard
             /\ secondCard' = NoCard
             /\ lockBoard' = FALSE]_vars

\* A callback of the current game is still pending.
CurrentPending == \E i \in 1..Len(timeouts) : timeouts[i] = "current"

\* C4: from a mismatching second selection until the callback that very
\* mismatch scheduled has run, every flipCard is a no-op, as long as no
\* startGame/prepareGame intervenes.
LockedUntilOwnCallback ==
    [][(lastOp'.op = "flipCard" /\ CurrentPending)
          => UNCHANGED <<gameVars, timeouts>>]_vars

\* C5: under fairness of the delay callback every mismatch is resolved: the
\* two selected cards become face-down again, both selection slots empty and
\* lockBoard false, also when the game is paused or resumed meanwhile; and
\* lockBoard never stays true forever.
MismatchResolved ==
    /\ [][(lockBoard /\ ~lockBoard')
            => /\ firstCard \notin flipped'
               /\ secondCard \notin flipped'
               /\ firstCard' = NoCard
               /\ secondCard' = NoCard]_vars
    /\ lockBoard ~> ~lockBoard

\* A mismatch is waiting for its callback while the game is paused.
MismatchPendingWhilePaused ==
    /\ lockBoard
    /\ paused
    /\ firstCard # NoCard
    /\ secondCard # NoCard
    /\ deck[firstCard] # deck[secondCard]
    /\ CurrentPending

\* C6: an accepted flipCard with no first selection held records the card as
\* firstCard and leaves moves unchanged; an accepted flipCard with a first
\* selection held increments moves by exactly 1; nothing else changes moves
\* except the reset to 0 in startGame/prepareGame.
MovesCountSecondSelections ==
    [][/\ (lastOp'.op = "flipCard" /\ Accepted(lastOp'.card) /\ firstCard = NoCard)
          => (firstCard' = lastOp'.card /\ moves' = moves)
       /\ (lastOp'.op = "flipCard" /\ Accepted(lastOp'.card) /\ firstCard # NoCard)
          => moves' = moves + 1
       /\ moves' # moves
          => \/ /\ lastOp'.op = "flipCard"
                /\ Accepted(lastOp'.card)
                /\ firstCard # NoCard
             \/ /\ lastOp'.op \in {"startGame", "prepareGame"}
                /\ moves' = 0]_vars

\* A second selection was just counted as the second move of a game.
SecondMoveCounted ==
    /\ lastOp.op = "flipCard"
    /\ moves = 2
    /\ lastOp.card \in flipped

\* C7: in every game endGame runs exactly once, when matches reaches the pair
\* count of the difficulty and never before; after it the game is inactive
\* (not started, not paused, timer stopped) until the next startGame.
EndGameOncePerGame ==
    /\ endGameCalls <= 1
    /\ endGameCalls = 1 <=> matches = Pairs(difficulty)
    /\ endGameCalls = 1
          => /\ ~gameStarted
             /\ ~paused
             /\ ~timerInterval
             /\ intervals = 0

\* A game was won, and something happened afterwards.
AfterWin ==
    /\ endGameCalls = 1
    /\ winShown
    /\ lastOp.op \in {"timeout", "pauseGame", "resumeGame"}

\* The stored best of difficulty d is a move count.
HasBest(d) == bestScores[d] \notin {NULL, NaN}

\* C8: the best score of a difficulty changes only in endGame and only for
\* the difficulty of the game just completed; endGame makes it the move count
\* of the game if none was stored or the move count is strictly lower, and
\* leaves it otherwise; so a stored best never increases.
BestScoreOnlyImproves ==
    [][/\ \A d \in Difficulties :
             bestScores'[d] # bestScores[d]
                => /\ endGameCalls' = endGameCalls + 1
                   /\ d = difficulty
                   /\ bestScores'[d] = moves'
                   /\ bestScores[d] = NULL \/ (HasBest(d) /\ moves' < bestScores[d])
       /\ endGameCalls' = endGameCalls + 1
             => bestScores'[difficulty] =
                   IF \/ bestScores[difficulty] = NULL
                      \/ HasBest(difficulty) /\ moves' < bestScores[difficulty]
                   THEN moves'
                   ELSE bestScores[difficulty]
       /\ \A d \in Difficulties :
             HasBest(d) => (bestScores'[d] <= bestScores[d] /\ bestScores'[d] >= 0)]_vars

\* A game was completed in more moves than the stored best, which stayed.
WorseGameCompleted ==
    /\ endGameCalls = 1
    /\ HasBest(difficulty)
    /\ bestScores[difficulty] < moves

\* A stored item is a decimal number.
IsNumeric(s) == s # <<>> /\ \A i \in 1..Len(s) : IsDigit(s[i])

\* C9: a malformed (non-numeric) persisted best-score value is treated as
\* absent: the best of that difficulty is "no best" as long as the item is
\* stored, so that the first completed game replaces it.
MalformedBestIsAbsent ==
    \A d \in DOMAIN localStorage :
        ~IsNumeric(localStorage[d]) => bestScores[d] = NULL

\* C10: pauseGame is a no-op when the game is not started or already paused,
\* resumeGame when it is not started or not paused; otherwise pause sets
\* paused and stops the timer, resume clears paused and restarts the timer;
\* neither changes moves, matches, the deck, card faces, the selection slots,
\* lockBoard or the best scores.
PauseResumeFrame ==
    [][/\ (lastOp'.op = "pauseGame" /\ (~gameStarted \/ paused))
          => UNCHANGED <<gameVars, timeouts>>
       /\ (lastOp'.op = "resumeGame" /\ (~gameStarted \/ ~paused))
          => UNCHANGED <<gameVars, timeouts>>
       /\ (lastOp'.op = "pauseGame" /\ gameStarted /\ ~paused)
          => (paused' /\ ~timerInterval' /\ intervals' = 0)
       /\ (lastOp'.op = "resumeGame" /\ gameStarted /\ paused)
          => (~paused' /\ timerInterval' /\ intervals' = 1)
       /\ lastOp'.op \in {"pauseGame", "resumeGame"}
          => UNCHANGED <<moves, matches, deck, flipped, matched, firstCard,
                         secondCard, lockBoard, bestScores, localStorage,
                         gameStarted, difficulty, timeouts>>]_vars

\* resumeGame was called on a running game that was not paused.
ResumeWhileRunning ==
    /\ lastOp.op = "resumeGame"
    /\ gameStarted
    /\ ~paused
    /\ firstCard # NoCard
    /\ timeouts # <<>>

\* The elapsed time of the game: the accumulated segments and the running one.
Elapsed == elapsedMs + (IF timerInterval THEN now - startTime ELSE 0)

\* C11: over any sequence of pause and resume within one game the elapsed
\* time equals the time the game has spent started and un-paused since
\* startGame: elapsedMs does not grow while paused, pausing folds the running
\* segment into elapsedMs once, resuming continues from the accumulated value.
ElapsedIsUnpausedTime ==
    [][/\ Elapsed = unpausedMs
       /\ Elapsed' = unpausedMs'
       /\ (paused /\ paused') => elapsedMs' = elapsedMs
       /\ (lastOp'.op = "pauseGame" /\ gameStarted /\ ~paused)
             => elapsedMs' = elapsedMs + (now - startTime)
       /\ (lastOp'.op = "resumeGame" /\ gameStarted /\ paused)
             => (elapsedMs' = elapsedMs /\ Elapsed' = Elapsed)]_vars

\* A game ran for one unit, was paused for one, and has run one unit since.
ResumedAfterPause ==
    /\ gameStarted
    /\ ~paused
    /\ elapsedMs = 1
    /\ startTime = 2
    /\ now = 3
    /\ lastOp.op = "advance"

\* deck is a deck of difficulty d: two cards of each of its symbols.
IsDeckOf(dk, d) ==
    /\ Len(dk) = 2 * Pairs(d)
    /\ \A i \in 1..Len(dk) :
          Cardinality({j \in 1..Len(dk) : dk[j] = dk[i]}) = 2

\* C12: prepareGame, from any reachable state, yields an unstarted game with
\* moves = 0, matches = 0, elapsed time 0 with the timer stopped, empty
\* selection slots, lockBoard false, a fresh deck with every card face-down
\* and unmatched, input disabled, and the best scores unchanged.
PrepareGameResets ==
    [][lastOp'.op = "prepareGame"
          => /\ ~gameStarted'
             /\ ~paused'
             /\ moves' = 0
             /\ matches' = 0
             /\ elapsedMs' = 0
             /\ Elapsed' = 0
             /\ ~timerInterval'
             /\ intervals' = 0
             /\ firstCard' = NoCard
             /\ secondCard' = NoCard
             /\ ~lockBoard'
             /\ IsDeckOf(deck', difficulty')
             /\ flipped' = {}
             /\ matched' = {}
             /\ boardDisabled'
             /\ UNCHANGED <<bestScores, localStorage>>]_vars

\* The difficulty was changed during a mismatch delay, after time had passed
\* and a game had been won.
PreparedDuringDelay ==
    /\ lastOp.op = "prepareGame"
    /\ timeouts # <<>>
    /\ now > 0
    /\ \E d \in Difficulties : bestScores[d] # NULL

\* C13: startGame, from any reachable state, yields an active, un-paused game
\* with moves = 0, matches = 0, empty selection slots, a fresh all-face-down
\* deck and the timer running from an elapsed time of zero.
StartGameResets ==
    [][lastOp'.op = "startGame"
          => /\ gameStarted'
             /\ ~paused'
             /\ moves' = 0
             /\ matches' = 0
             /\ firstCard' = NoCard
             /\ secondCard' = NoCard
             /\ ~lockBoard'
             /\ IsDeckOf(deck', difficulty')
             /\ flipped' = {}
             /\ matched' = {}
             /\ timerInterval'
             /\ intervals' = 1
             /\ elapsedMs' = 0
             /\ Elapsed' = 0]_vars

\* A game was restarted during a mismatch delay, after time had passed and a
\* game of the difficulty had been won.
RestartedLater ==
    /\ lastOp.op = "startGame"
    /\ startTime > 0
    /\ timeouts # <<>>
    /\ bestScores[difficulty] # NULL

\* The number of places of array arr that hold x.
Count(arr, x) == Cardinality({i \in 1..Len(arr) : arr[i] = x})

\* C14: every deck generateDeck produces has length 2 * pairs of the active
\* difficulty and holds each chosen symbol exactly twice, the chosen symbols
\* being distinct members of the pool; shuffle only permutes its array.
DeckWellFormed ==
    /\ Len(deck) = 2 * Pairs(difficulty)
    /\ \A i \in 1..Len(deck) :
          /\ Count(deck, deck[i]) = 2
          /\ \E k \in 1..Len(GAME_DATA) : GAME_DATA[k] = deck[i]
    /\ Cardinality({deck[i] : i \in 1..Len(deck)}) = Pairs(difficulty)
    /\ Len(shuffleOut) = Len(shuffleIn)
    /\ \A k \in 1..Len(GAME_DATA) :
          Count(shuffleOut, GAME_DATA[k]) = Count(shuffleIn, GAME_DATA[k])

\* shuffle reordered an array of three symbols, and startGame has dealt a
\* deck of the larger difficulty.
ShuffledAndDealt ==
    /\ lastOp.op = "shuffle"
    /\ Len(shuffleIn) = 3
    /\ shuffleOut # shuffleIn
    /\ gameStarted
    /\ difficulty = "hard"

\* C15: the number of matched cards is twice `matches`, every matched card
\* is face-up, every matched card has a distinct matched partner of the same
\* name, and endGame has run only when every card is matched and face-up.
MatchedCardsConsistent ==
    /\ Cardinality(matched) = 2 * matches
    /\ matched \subseteq flipped
    /\ \A c \in matched : \E c2 \in matched \ {c} : SameName(c, c2)
    /\ winShown => (matched = Cards /\ flipped = Cards)

\* C16: a card held in firstCard is face-up and unmatched, and the two cards
\* of a resolved pair are distinct: no step resolves a card against itself.
FirstCardFaceUpPairDistinct ==
    [][/\ firstCard # NoCard => (firstCard \in flipped /\ firstCard \notin matched)
       /\ lastOp'.op = "flipCard" /\ firstCard # NoCard /\ moves' # moves
             => lastOp'.card # firstCard]_vars

\* C17: the timer runs exactly when the game is started and not paused, and
\* at most one periodic tick is live: the one state.timerInterval refers to.
TimerRunsIffPlaying ==
    /\ timerInterval <=> (gameStarted /\ ~paused)
    /\ intervals = (IF timerInterval THEN 1 ELSE 0)

\* startGame restarted a game whose timer was running (a mismatch callback
\* of that game is still pending): startTimer cleared the old tick and one
\* tick is live.
TimerRestarted ==
    /\ lastOp.op = "startGame"
    /\ moves = 0
    /\ timerInterval
    /\ intervals = 1
    /\ timeouts # <<>>

\* C18: paused implies gameStarted, matches stays between 0 and the pair
\* count of the active difficulty, and matches never exceeds moves.
CountersWithinRange ==
    /\ paused => gameStarted
    /\ 0 <= matches
    /\ matches <= Pairs(difficulty)
    /\ matches <= moves

\* A paused game in which a pair has been matched after an earlier miss.
PausedAfterMatch ==
    /\ paused
    /\ gameStarted
    /\ matches = 1
    /\ moves = 2

\* C19: while lockBoard is set both firstCard and secondCard are set and a
\* mismatch callback is pending; secondCard is set only with firstCard.
LockHoldsBothCards ==
    /\ lockBoard => (firstCard # NoCard /\ secondCard # NoCard /\ timeouts # <<>>)
    /\ secondCard # NoCard => firstCard # NoCard

\* The board is locked on a mismatch while the callback of an earlier game
\* is still pending ahead of the current one.
LockedBehindSuperseded ==
    /\ lockBoard
    /\ timeouts = <<"superseded", "current">>

====
